---- MODULE Spec2Model ----
(***************************************************************************)
(* Model of the punctuation checker (src/main.py): the sign tables, the    *)
(* style detector detect_style, the line processor process_line and the    *)
(* request handler check_punctuation of POST /api/punctuation/check, with  *)
(* the daily usage quota of UserService.check_and_update_usage             *)
(* (src/services.py) that the handler consults first.                      *)
(*                                                                         *)
(* The handler is a plain "def": the server runs it on worker threads.     *)
(* The variables from pc to usage_info are the frame of the running        *)
(* thread, other is the frame of a second, suspended thread, and users,    *)
(* subscriptions and today are what the threads share.                     *)
(*                                                                         *)
(* A text is a sequence of one-character strings.  Python indices are      *)
(* 0-based: the character at Python index i of s is s[i + 1], see At.      *)
(* The glyphs outside ASCII are written by their code point:               *)
(*   "U3001" ideographic comma        "U3002" ideographic full stop        *)
(*   "UFF0C" fullwidth comma          "UFF0E" fullwidth full stop          *)
(*   "UFF64" halfwidth ideographic comma                                   *)
(*   "UFF61" halfwidth ideographic full stop                               *)
(***************************************************************************)
EXTENDS Integers, Sequences, FiniteSets, TLC

VARIABLES
    pc,               \* position of the handler check_punctuation
    req,              \* the CheckRequest being handled
    round,            \* place of the request in its chain of resubmissions
    sent,             \* the texts of the earlier requests, oldest first
    detected_style,   \* local detected_style
    active_style,     \* local active_style
    lines,            \* req.text.split("\n"), the sequence the loop iterates
    line_no,          \* 1-based number of the next line of the loop
    result_lines,     \* local result_lines
    all_issues,       \* local all_issues
    all_changes,      \* local all_changes
    global_position,  \* local global_position
    stats,            \* local stats
    calls,            \* how often the handler has called the core functions
    pl,               \* arguments and result of the last process_line call
    response,         \* the HTTP response of the handler
    user_key,         \* local user_key
    session_user,     \* the User row as loaded into the handler's db session
    usage_info,       \* the dict check_and_update_usage returned
    other,            \* the frame of the suspended thread
    users,            \* table users, by user_key
    subscriptions,    \* table subscriptions, in order of insertion
    today,            \* date.today(), as a day number
    granted,          \* per user and day, the calls answered can_use = True
    svc               \* the last call of a service or endpoint other than
                      \* check_punctuation, with its answer

\* the frame of the running thread
frame == <<pc, req, round, sent, detected_style, active_style, lines, line_no,
           result_lines, all_issues, all_changes, global_position, stats,
           calls, pl, response, user_key, session_user, usage_info>>

\* the database, the clock and the record of the calls
shared == <<users, subscriptions, today, granted, svc>>

vars == <<frame, other, shared>>

----------------------------------------------------------------------------
(* Bounds of the model *)

\* longest text drawn character by character from Alphabet
MaxLen == 3

\* requests of one run: the first is drawn freely, a later one sends the
\* previous result_text back with the same mode, style and width
MaxRequests == 2

\* the days the clock can show
MaxDays == 2

\* rows of the table subscriptions
MaxSubs == 2

\* requests granted to a user per day where subscriptions are followed
MaxGrants == 1

----------------------------------------------------------------------------
(* Python values *)

NoneVal == "None"

\* Python truthiness of a str-or-None value
Truthy(v) == v \notin {NoneVal, ""}

\* s[i] with the 0-based Python index i
At(s, i) == s[i + 1]

\* dict.get(key, default)
Get(d, key, default) == IF key \in DOMAIN d THEN d[key] ELSE default

LF == "\n"
CR == "\r"

\* characters that str.strip() removes, among the characters of the model
Whitespace == {" ", LF, CR}

----------------------------------------------------------------------------
(* Canonical roles and the sign tables *)

JP_COMMA == "jp-comma"
JP_PERIOD == "jp-period"
EN_COMMA_FULL == "en-comma-full"
EN_COMMA_HALF == "en-comma-half"
EN_PERIOD_FULL == "en-period-full"
EN_PERIOD_HALF == "en-period-half"

SIGN_MAP ==
    ("U3001" :> JP_COMMA) @@
    ("U3002" :> JP_PERIOD) @@
    ("UFF0C" :> EN_COMMA_FULL) @@
    (","     :> EN_COMMA_HALF) @@
    ("UFF0E" :> EN_PERIOD_FULL) @@
    ("."     :> EN_PERIOD_HALF)

\* variant: the half-width Western period is rewritten to the comma
OUTPUT_MAP_jp_full_period_as_comma ==
    (JP_COMMA :> "U3001") @@
    (JP_PERIOD :> "U3002") @@
    (EN_COMMA_FULL :> "U3001") @@
    (EN_COMMA_HALF :> "U3001") @@
    (EN_PERIOD_FULL :> "U3002") @@
    (EN_PERIOD_HALF :> "U3001")

\* OUTPUT_MAP["jp"]["full"]
OUTPUT_MAP_jp_full ==
    (JP_COMMA :> "U3001") @@
    (JP_PERIOD :> "U3002") @@
    (EN_COMMA_FULL :> "U3001") @@
    (EN_COMMA_HALF :> "U3001") @@
    (EN_PERIOD_FULL :> "U3002") @@
    (EN_PERIOD_HALF :> "U3002")

\* variant: the entry of the half-width Western period is missing
OUTPUT_MAP_jp_half_without_en_period ==
    (JP_COMMA :> "UFF64") @@
    (JP_PERIOD :> "UFF61") @@
    (EN_COMMA_FULL :> "UFF64") @@
    (EN_COMMA_HALF :> "UFF64") @@
    (EN_PERIOD_FULL :> "UFF61")

\* variant: the Japanese period keeps its full-width glyph
OUTPUT_MAP_jp_half_keeping_full_period ==
    (JP_COMMA :> "UFF64") @@
    (JP_PERIOD :> "U3002") @@
    (EN_COMMA_FULL :> "UFF64") @@
    (EN_COMMA_HALF :> "UFF64") @@
    (EN_PERIOD_FULL :> "UFF61") @@
    (EN_PERIOD_HALF :> "UFF61")

\* OUTPUT_MAP["jp"]["half"]
OUTPUT_MAP_jp_half ==
    (JP_COMMA :> "UFF64") @@
    (JP_PERIOD :> "UFF61") @@
    (EN_COMMA_FULL :> "UFF64") @@
    (EN_COMMA_HALF :> "UFF64") @@
    (EN_PERIOD_FULL :> "UFF61") @@
    (EN_PERIOD_HALF :> "UFF61")

\* variant: the outputs of the two Western commas are exchanged
OUTPUT_MAP_en_full_swapped ==
    (JP_COMMA :> "UFF0C") @@
    (JP_PERIOD :> "UFF0E") @@
    (EN_COMMA_FULL :> ",") @@
    (EN_COMMA_HALF :> "UFF0C") @@
    (EN_PERIOD_FULL :> "UFF0E") @@
    (EN_PERIOD_HALF :> "UFF0E")

\* OUTPUT_MAP["en"]["full"]
OUTPUT_MAP_en_full ==
    (JP_COMMA :> "UFF0C") @@
    (JP_PERIOD :> "UFF0E") @@
    (EN_COMMA_FULL :> "UFF0C") @@
    (EN_COMMA_HALF :> "UFF0C") @@
    (EN_PERIOD_FULL :> "UFF0E") @@
    (EN_PERIOD_HALF :> "UFF0E")

\* OUTPUT_MAP["en"]["half"]
OUTPUT_MAP_en_half ==
    (JP_COMMA :> ",") @@
    (JP_PERIOD :> ".") @@
    (EN_COMMA_FULL :> ",") @@
    (EN_COMMA_HALF :> ",") @@
    (EN_PERIOD_FULL :> ".") @@
    (EN_PERIOD_HALF :> ".")

OUTPUT_MAP ==
    [jp |-> [full |-> OUTPUT_MAP_jp_full, half |-> OUTPUT_MAP_jp_half],
     en |-> [full |-> OUTPUT_MAP_en_full, half |-> OUTPUT_MAP_en_half]]

ROLE_TO_STYLE ==
    (JP_COMMA :> "jp") @@
    (JP_PERIOD :> "jp") @@
    (EN_COMMA_FULL :> "en") @@
    (EN_COMMA_HALF :> "en") @@
    (EN_PERIOD_FULL :> "en") @@
    (EN_PERIOD_HALF :> "en")

----------------------------------------------------------------------------
(* Style detection *)

\* variant: the full-width period is missing from the Western roles
detect_style_without_full_period(text) ==
    LET t(i) == Get(SIGN_MAP, At(text, i), NoneVal)
        jp_count == Cardinality({i \in 0..(Len(text) - 1) :
                        t(i) \in {JP_COMMA, JP_PERIOD}})
        en_count == Cardinality({i \in 0..(Len(text) - 1) :
                        t(i) \in {EN_COMMA_FULL, EN_COMMA_HALF,
                                  EN_PERIOD_HALF}})
    IN  IF jp_count # 0 /\ en_count # 0 THEN "mixed"
        ELSE IF jp_count # 0 THEN "jp"
        ELSE IF en_count # 0 THEN "en"
        ELSE "none"

detect_style(text) ==
    LET t(i) == Get(SIGN_MAP, At(text, i), NoneVal)
        jp_count == Cardinality({i \in 0..(Len(text) - 1) :
                        t(i) \in {JP_COMMA, JP_PERIOD}})
        en_count == Cardinality({i \in 0..(Len(text) - 1) :
                        t(i) \in {EN_COMMA_FULL, EN_COMMA_HALF,
                                  EN_PERIOD_FULL, EN_PERIOD_HALF}})
    IN  IF jp_count # 0 /\ en_count # 0 THEN "mixed"
        ELSE IF jp_count # 0 THEN "jp"
        ELSE IF en_count # 0 THEN "en"
        ELSE "none"

----------------------------------------------------------------------------
(* Message *)

create_message(sign_type) ==
    CASE sign_type = JP_COMMA       -> "found: Japanese comma (U3001)"
      [] sign_type = JP_PERIOD      -> "found: Japanese period (U3002)"
      [] sign_type = EN_COMMA_FULL  -> "found: English comma (full: UFF0C)"
      [] sign_type = EN_COMMA_HALF  -> "found: English comma (half: ,)"
      [] sign_type = EN_PERIOD_FULL -> "found: English period (full: UFF0E)"
      [] sign_type = EN_PERIOD_HALF -> "found: English period (half: .)"
      [] OTHER                      -> "found: unknown punctuation"

----------------------------------------------------------------------------
(* Line processor *)

\* variant: the rewrite decision forgets the active style
SubstitutionAttempted_any_style(mode, active_style_) ==
    mode = "convert"

\* variant: the rewrite decision forgets the mode
SubstitutionAttempted_any_mode(mode, active_style_) ==
    Truthy(active_style_)

\* the rewrite decision of process_line: "if mode == 'convert' and
\* active_style"
SubstitutionAttempted(mode, active_style_) ==
    mode = "convert" /\ Truthy(active_style_)

\* variant: width "auto" resolves to "half" for every style
target_width_auto_half(active_style_, width) ==
    IF width = "auto" THEN "half" ELSE width

\* the effective width of process_line
target_width(active_style_, width) ==
    IF width = "auto"
    THEN (IF active_style_ = "jp" THEN "full" ELSE "half")
    ELSE width

\* variant: the half-width ideographic comma is rewritten although it is no
\* key of SIGN_MAP
new_ch_rewriting_unrecognized(ch, mode, active_style_, width) ==
    IF ch \notin DOMAIN SIGN_MAP
    THEN (IF ch = "UFF64" /\ SubstitutionAttempted(mode, active_style_)
          THEN "U3001" ELSE ch)
    ELSE IF SubstitutionAttempted(mode, active_style_)
         THEN Get(OUTPUT_MAP[active_style_][target_width(active_style_, width)],
                  SIGN_MAP[ch], ch)
         ELSE ch

\* the character process_line appends to new_chars for the character ch
new_ch(ch, mode, active_style_, width) ==
    IF ch \notin DOMAIN SIGN_MAP
    THEN ch
    ELSE IF SubstitutionAttempted(mode, active_style_)
         THEN Get(OUTPUT_MAP[active_style_][target_width(active_style_, width)],
                  SIGN_MAP[ch], ch)
         ELSE ch

\* process_line raises KeyError when it reaches a sign and OUTPUT_MAP has no
\* entry for the active style or for the effective width
RaisesKeyError(line, mode, active_style_, width) ==
    /\ SubstitutionAttempted(mode, active_style_)
    /\ \E k \in 1..Len(line) : line[k] \in DOMAIN SIGN_MAP
    /\ \/ active_style_ \notin DOMAIN OUTPUT_MAP
       \/ target_width(active_style_, width)
              \notin DOMAIN OUTPUT_MAP[active_style_]

\* variant: the Issue carries a 1-based index
Issue_one_based(line, line_no_, i) ==
    [line |-> line_no_,
     index |-> i + 1,
     type |-> SIGN_MAP[At(line, i)],
     message |-> create_message(SIGN_MAP[At(line, i)])]

\* the Issue process_line appends for the sign at index i
Issue(line, line_no_, i) ==
    [line |-> line_no_,
     index |-> i,
     type |-> SIGN_MAP[At(line, i)],
     message |-> create_message(SIGN_MAP[At(line, i)])]

\* variant: the Change carries the index within the line as its position
Change_in_line(line, line_no_, mode, active_style_, width, global_start_pos, i) ==
    [line |-> line_no_,
     position |-> i,
     original |-> At(line, i),
     converted |-> new_ch(At(line, i), mode, active_style_, width)]

\* the Change process_line appends for the sign at index i
Change(line, line_no_, mode, active_style_, width, global_start_pos, i) ==
    [line |-> line_no_,
     position |-> global_start_pos + i,
     original |-> At(line, i),
     converted |-> new_ch(At(line, i), mode, active_style_, width)]

\* The loop of process_line visits the indices 0 .. len(line) - 1 in order
\* and appends to new_chars, issues and changes; the three results are
\* given here index by index, in the order of the appends.
process_line(line, line_no_, mode, active_style_, width, global_start_pos) ==
    LET n == Len(line)
        IsSign(i) == At(line, i) \in DOMAIN SIGN_MAP
        Changed(i) ==
            /\ SubstitutionAttempted(mode, active_style_)
            /\ new_ch(At(line, i), mode, active_style_, width) # At(line, i)
        sign_indices == SelectSeq([k \in 1..n |-> k - 1], IsSign)
        change_indices == SelectSeq(sign_indices, Changed)
    IN  IF RaisesKeyError(line, mode, active_style_, width)
        THEN [raised |-> "KeyError", line |-> <<>>, issues |-> <<>>,
              changes |-> <<>>]
        ELSE [raised |-> NoneVal,
              line |-> [k \in 1..n |->
                           new_ch(line[k], mode, active_style_, width)],
              issues |-> [k \in 1..Len(sign_indices) |->
                             Issue(line, line_no_, sign_indices[k])],
              changes |-> [k \in 1..Len(change_indices) |->
                              Change(line, line_no_, mode, active_style_,
                                     width, global_start_pos,
                                     change_indices[k])]]

----------------------------------------------------------------------------
(* str methods used by the handler *)

\* text.strip(): the text from its first to its last character that is not
\* whitespace
strip(text) ==
    LET n == Len(text)
        Kept(k) == text[k] \notin Whitespace
        first == CHOOSE k \in 1..n :
                     Kept(k) /\ \A j \in 1..(k - 1) : ~Kept(j)
        last == CHOOSE k \in 1..n :
                    Kept(k) /\ \A j \in (k + 1)..n : ~Kept(j)
    IN  IF \A k \in 1..n : ~Kept(k) THEN <<>> ELSE SubSeq(text, first, last)

\* variant: a carriage return before the line feed is removed with it
RECURSIVE split_dropping_cr(_)
split_dropping_cr(text) ==
    LET nl == {k \in 1..Len(text) : text[k] = LF}
        p == CHOOSE k \in nl : \A j \in nl : k <= j
        first == SubSeq(text, 1, p - 1)
        kept == IF Len(first) > 0 /\ first[Len(first)] = CR
                THEN SubSeq(first, 1, Len(first) - 1)
                ELSE first
    IN  IF nl = {}
        THEN <<text>>
        ELSE <<kept>> \o split_dropping_cr(SubSeq(text, p + 1, Len(text)))

\* text.split("\n")
RECURSIVE split(_)
split(text) ==
    LET nl == {k \in 1..Len(text) : text[k] = LF}
        p == CHOOSE k \in nl : \A j \in nl : k <= j
    IN  IF nl = {}
        THEN <<text>>
        ELSE <<SubSeq(text, 1, p - 1)>>
                 \o split(SubSeq(text, p + 1, Len(text)))

\* variant: the lines are joined without separator
RECURSIVE join_without_separator(_)
join_without_separator(parts) ==
    IF Len(parts) = 0 THEN <<>>
    ELSE parts[1] \o join_without_separator(Tail(parts))

\* "\n".join(parts)
RECURSIVE join(_)
join(parts) ==
    IF Len(parts) = 0 THEN <<>>
    ELSE IF Len(parts) = 1 THEN parts[1]
    ELSE parts[1] \o <<LF>> \o join(Tail(parts))

----------------------------------------------------------------------------
(* The requests of the model *)

\* the limit of "len(req.text) > 10000"
MAX_TEXT_LENGTH == 10000

\* the characters of the enumerated texts: an ordinary character, the line
\* feed, the six signs and a half-width Japanese comma (not a sign)
Alphabet == {"a", LF, "U3001", "U3002", "UFF0C", ",", "UFF0E", ".", "UFF64"}

ShortTexts == UNION {[1..n -> Alphabet] : n \in 0..MaxLen}

\* n - 1 ordinary characters and a half-width comma at the end
LongText(n) == [k \in 1..n |-> IF k = n THEN "," ELSE "a"]

\* texts of the documentation, and texts with blanks, carriage returns and
\* the half-width Japanese signs
ExampleTexts ==
    { <<"a", ",", "b", LF, "c", ".", "d">>,
      <<"a", "U3001", "b", ".", "c">>,
      <<"a", "b", "c">>,
      <<"U732B", "U304C", "U3001", "U9CF4", "U304F", "U3002">>,
      <<"H", "e", "l", "l", "o", ",", " ", "w", "o", "r", "l", "d", ".">>,
      <<"a", ",", CR, LF, "b", ".">>,
      <<",", CR, LF, CR, LF, "U3002">>,
      <<"UFF64", "a", "UFF61">>,
      <<" ", ",", " ">>,
      <<" ", LF, CR, " ">>,
      <<" ">> }

\* texts at the length limit
LongTexts == {LongText(MAX_TEXT_LENGTH), LongText(MAX_TEXT_LENGTH + 1)}

\* a value outside the enumeration of a request field
Invalid == "other"

Requests ==
    [text : ShortTexts \cup ExampleTexts,
     mode : {"check", "convert", Invalid},
     style : {"jp", "en", "auto", Invalid},
     width : {"auto", "full", "half", Invalid}]
    \cup
    [text : LongTexts,
     mode : {"convert"},
     style : {"jp", Invalid},
     width : {"auto"}]

----------------------------------------------------------------------------
(* The users table and the usage quota (src/services.py) *)

USAGE_LIMIT == 20

\* the values of the cookie "uid" that enhanced_get_user_key returns
UserKeys == {"u1", "u2"}

\* no row of the users table has this user_key
NoUser == [exists |-> FALSE, daily_usage_count |-> 0, daily_usage_date |-> 0,
           is_premium |-> FALSE]

\* UserService.get_or_create_user: the users table after the call
get_or_create_user(users_, key, today_) ==
    IF users_[key].exists
    THEN users_
    ELSE [users_ EXCEPT ![key] = [exists |-> TRUE,
                                  daily_usage_count |-> 0,
                                  daily_usage_date |-> today_,
                                  is_premium |-> FALSE]]

\* the query of SubscriptionService.is_user_premium: is there a subscription
\* of the user with is_active = True
has_active_subscription(subscriptions_, key) ==
    \E k \in 1..Len(subscriptions_) :
        /\ subscriptions_[k].user_key = key
        /\ subscriptions_[k].is_active

\* variant: the flag is set for a subscriber and never cleared
is_user_premium_sync_only_setting(users_, subscriptions_, key) ==
    IF users_[key].exists /\ has_active_subscription(subscriptions_, key)
    THEN [users_ EXCEPT ![key].is_premium = TRUE]
    ELSE users_

\* SubscriptionService.is_user_premium: the users table after the call, with
\* the flag is_premium set to the result
is_user_premium_sync(users_, subscriptions_, key) ==
    IF users_[key].exists
    THEN [users_ EXCEPT ![key].is_premium =
                            has_active_subscription(subscriptions_, key)]
    ELSE users_

\* variant: the date is set to today and the count is kept
daily_reset_keeping_count(users_, key, today_) ==
    IF users_[key].daily_usage_date # today_
    THEN [users_ EXCEPT ![key].daily_usage_date = today_]
    ELSE users_

\* "if user.daily_usage_date != today": the users table after the reset
daily_reset(users_, key, today_) ==
    IF users_[key].daily_usage_date # today_
    THEN [users_ EXCEPT ![key].daily_usage_date = today_,
                        ![key].daily_usage_count = 0]
    ELSE users_

\* variant: the comparison admits a count equal to the limit
can_use_at_limit(daily_usage_count, usage_limit) ==
    daily_usage_count <= usage_limit

\* can_use = user.daily_usage_count < usage_limit
can_use(daily_usage_count, usage_limit) == daily_usage_count < usage_limit

\* max(0, usage_limit - user.daily_usage_count)
remaining(daily_usage_count, usage_limit) ==
    IF usage_limit - daily_usage_count > 0
    THEN usage_limit - daily_usage_count
    ELSE 0

\* no call yet; seq tells one call from the next
NoSvc == [op |-> NoneVal, key |-> NoneVal, sid |-> NoneVal, arg |-> NoneVal,
          ok |-> FALSE, status |-> 0, seq |-> 0]

\* variant: the dict of a subscriber carries the limit of the free plan
PremiumUsage_with_limit == [used |-> 0, remaining |-> 20, limit |-> 20,
                            premium |-> TRUE, can_use |-> TRUE]

\* the dict returned for a user with an active subscription
PremiumUsage == [used |-> 0, remaining |-> -1, limit |-> -1,
                 premium |-> TRUE, can_use |-> TRUE]

NoUsage == [used |-> 0, remaining |-> 0, limit |-> 0, premium |-> FALSE,
            can_use |-> FALSE]

----------------------------------------------------------------------------
(* The subscriptions table (src/services.py, src/database.py) *)

\* the subscription ids Stripe hands out
StripeIds == {"sub_1", "sub_2"}

\* Python's "a or b"
Or(a, b) == IF Truthy(a) THEN a ELSE b

\* the first row with user_key = key and is_active = True, 0 for None
active_index(subscriptions_, key) ==
    LET found == {k \in 1..Len(subscriptions_) :
                     /\ subscriptions_[k].user_key = key
                     /\ subscriptions_[k].is_active}
    IN  IF found = {} THEN 0 ELSE CHOOSE k \in found : \A j \in found : k <= j

\* variant: the query has no filter and yields the first row of the table
stripe_index_unfiltered(subscriptions_, sid) ==
    IF Len(subscriptions_) = 0 THEN 0 ELSE 1

\* the first row with stripe_subscription_id = sid, 0 for None
stripe_index(subscriptions_, sid) ==
    LET found == {k \in 1..Len(subscriptions_) :
                     subscriptions_[k].stripe_subscription_id = sid}
    IN  IF found = {} THEN 0 ELSE CHOOSE k \in found : \A j \in found : k <= j

\* stripe_subscription_id is declared unique: two rows hold the same id
violates_unique(subscriptions_) ==
    \E j, k \in 1..Len(subscriptions_) :
        /\ j < k
        /\ subscriptions_[j].stripe_subscription_id # NoneVal
        /\ subscriptions_[j].stripe_subscription_id
               = subscriptions_[k].stripe_subscription_id

\* the parameters of SubscriptionService.create_subscription
create_subscription_parameters ==
    {"db", "user_key", "stripe_customer_id", "stripe_subscription_id",
     "stripe_session_id", "metadata_dict"}

\* the keyword arguments of the call in success
success_call_keywords ==
    {"db", "user_key", "stripe_customer_id", "stripe_subscription_id",
     "stripe_session_id", "metadata_dict"}

\* the keyword arguments of the call in stripe_webhook
webhook_call_keywords ==
    {"db", "user_key", "stripe_customer_id", "stripe_subscription_id",
     "stripe_session_id", "metadata_dict", "fingerprint", "payment_ip",
     "payment_user_agent"}

\* Python binds keyword arguments to parameters: a keyword that is no
\* parameter raises TypeError before the body runs
raises_type_error(keywords, parameters) == ~(keywords \subseteq parameters)

\* variant: a new row is inserted whether or not the user has an active one
create_subscription_always_inserting(users_, subscriptions_, key, sid, today_) ==
    LET created == get_or_create_user(users_, key, today_)
        stored == Append(subscriptions_,
                         [user_key |-> key, stripe_subscription_id |-> sid,
                          is_active |-> TRUE, canceled_at |-> FALSE])
    IN  IF violates_unique(stored)
        THEN [raised |-> "IntegrityError", users |-> created,
              subscriptions |-> subscriptions_]
        ELSE [raised |-> NoneVal,
              users |-> [created EXCEPT ![key].is_premium = TRUE],
              subscriptions |-> stored]

\* SubscriptionService.create_subscription: the tables after the call and
\* the exception of the commit, if any
create_subscription(users_, subscriptions_, key, sid, today_) ==
    LET created == get_or_create_user(users_, key, today_)
        k == active_index(subscriptions_, key)
        stored ==
            IF k # 0
            THEN [subscriptions_ EXCEPT
                      ![k].stripe_subscription_id = Or(sid, @),
                      ![k].is_active = TRUE]
            ELSE Append(subscriptions_,
                        [user_key |-> key, stripe_subscription_id |-> sid,
                         is_active |-> TRUE, canceled_at |-> FALSE])
    IN  IF violates_unique(stored)
        THEN [raised |-> "IntegrityError", users |-> created,
              subscriptions |-> subscriptions_]
        ELSE [raised |-> NoneVal,
              users |-> [created EXCEPT ![key].is_premium = TRUE],
              subscriptions |-> stored]

\* variant: the row is set inactive and the flag of the user is kept
cancel_subscription_keeping_flag(users_, subscriptions_, key) ==
    LET k == active_index(subscriptions_, key)
    IN  IF k # 0
        THEN [ret |-> TRUE,
              users |-> users_,
              subscriptions |-> [subscriptions_ EXCEPT
                                    ![k].is_active = FALSE,
                                    ![k].canceled_at = TRUE]]
        ELSE [ret |-> FALSE, users |-> users_,
              subscriptions |-> subscriptions_]

\* SubscriptionService.cancel_subscription: the tables after the call and
\* the returned value
cancel_subscription(users_, subscriptions_, key) ==
    LET k == active_index(subscriptions_, key)
    IN  IF k # 0
        THEN [ret |-> TRUE,
              users |-> IF users_[key].exists
                        THEN [users_ EXCEPT ![key].is_premium = FALSE]
                        ELSE users_,
              subscriptions |-> [subscriptions_ EXCEPT
                                    ![k].is_active = FALSE,
                                    ![k].canceled_at = TRUE]]
        ELSE [ret |-> FALSE, users |-> users_,
              subscriptions |-> subscriptions_]

----------------------------------------------------------------------------
(* The handler check_punctuation *)

\* variant: the length check rejects a text of exactly the limit
validate_length_inclusive(r) ==
    IF strip(r.text) = <<>> THEN "text is empty"
    ELSE IF Len(r.text) >= MAX_TEXT_LENGTH THEN "text is too long"
    ELSE IF r.mode \notin {"check", "convert"} THEN "mode is invalid"
    ELSE IF r.style \notin {"jp", "en", "auto"} THEN "style is invalid"
    ELSE IF r.width \notin {"auto", "full", "half"} THEN "width is invalid"
    ELSE NoneVal

\* the validation block: the detail of the HTTPException(400) it raises, or
\* None when the request passes
validate(r) ==
    IF strip(r.text) = <<>> THEN "text is empty"
    ELSE IF Len(r.text) > MAX_TEXT_LENGTH THEN "text is too long"
    ELSE IF r.mode \notin {"check", "convert"} THEN "mode is invalid"
    ELSE IF r.style \notin {"jp", "en", "auto"} THEN "style is invalid"
    ELSE IF r.width \notin {"auto", "full", "half"} THEN "width is invalid"
    ELSE NoneVal

\* variant: style "auto" takes whatever was detected
resolve_active_style_any_detected(style, detected) ==
    IF style = "auto" THEN detected ELSE style

\* the "active style" block
resolve_active_style(style, detected) ==
    IF style = "auto"
    THEN (IF detected \in {"jp", "en"} THEN detected ELSE NoneVal)
    ELSE style

\* variant: the offset forgets the removed line feed
advance_without_separator(global_position_, line) ==
    global_position_ + Len(line)

\* global_position += len(line) + 1
advance(global_position_, line) == global_position_ + Len(line) + 1

RoleOrder == <<JP_COMMA, JP_PERIOD, EN_COMMA_FULL, EN_COMMA_HALF,
               EN_PERIOD_FULL, EN_PERIOD_HALF>>

ZeroStats == [role \in {RoleOrder[k] : k \in 1..Len(RoleOrder)} |-> 0]

\* variant: the counts of a line replace the counts so far
update_stats_of_last_line(stats_, issues) ==
    [role \in DOMAIN stats_ |->
        Cardinality({k \in 1..Len(issues) : issues[k].type = role})]

\* "for issue in issues: stats[issue['type']] += 1"
update_stats(stats_, issues) ==
    [role \in DOMAIN stats_ |->
        stats_[role]
            + Cardinality({k \in 1..Len(issues) : issues[k].type = role})]

\* the label of a role in readable_stats
stat_label(role) ==
    CASE role = JP_COMMA       -> "Japanese comma (U3001)"
      [] role = JP_PERIOD      -> "Japanese period (U3002)"
      [] role = EN_COMMA_FULL  -> "English comma (full: UFF0C)"
      [] role = EN_COMMA_HALF  -> "English comma (half: ,)"
      [] role = EN_PERIOD_FULL -> "English period (full: UFF0E)"
      [] role = EN_PERIOD_HALF -> "English period (half: .)"

\* readable_stats: one string "<label> x <count>" per role with stats > 0,
\* kept as the pair of the label and the count
readable_stats(stats_) ==
    LET Positive(role) == stats_[role] > 0
        shown == SelectSeq(RoleOrder, Positive)
    IN  [k \in 1..Len(shown) |->
            [label |-> stat_label(shown[k]), count |-> stats_[shown[k]]]]

NoCall == [called |-> FALSE]

NoCalls == [check_usage_limit |-> 0, detect_style |-> 0, process_line |-> 0]

NoResponse ==
    [status |-> 0, detail |-> NoneVal, result_text |-> <<>>,
     issues |-> <<>>, changes |-> <<>>, statistics |-> <<>>,
     summary |-> [detected_style |-> NoneVal, applied_style |-> NoneVal,
                  total_changes |-> 0]]

NoRequest == [text |-> <<>>, mode |-> NoneVal, style |-> NoneVal,
              width |-> NoneVal]

\* the locals of a fresh invocation of the handler
FreshLocals ==
    /\ detected_style' = NoneVal
    /\ active_style' = NoneVal
    /\ lines' = <<>>
    /\ line_no' = 1
    /\ result_lines' = <<>>
    /\ all_issues' = <<>>
    /\ all_changes' = <<>>
    /\ global_position' = 0
    /\ stats' = ZeroStats
    /\ calls' = NoCalls
    /\ pl' = NoCall
    /\ response' = NoResponse
    /\ session_user' = NoUser
    /\ usage_info' = NoUsage

\* the frame of a thread that has not handled a request yet
IdleFrame ==
    [pc |-> "idle", req |-> NoRequest, round |-> 0, sent |-> <<>>,
     detected_style |-> NoneVal, active_style |-> NoneVal, lines |-> <<>>,
     line_no |-> 1, result_lines |-> <<>>, all_issues |-> <<>>,
     all_changes |-> <<>>, global_position |-> 0, stats |-> ZeroStats,
     calls |-> NoCalls, pl |-> NoCall, response |-> NoResponse,
     user_key |-> NoneVal, session_user |-> NoUser, usage_info |-> NoUsage]

\* the thread is free, or leaves the request it has answered, and serves
\* another endpoint
Serve ==
    /\ pc \in {"idle", "done"}
    /\ pc' = "idle"
    /\ req' = NoRequest
    /\ round' = 0
    /\ sent' = <<>>
    /\ user_key' = NoneVal
    /\ FreshLocals
    /\ UNCHANGED other

\* the server has started: no request yet, an empty database
Init ==
    /\ pc = "idle"
    /\ req = NoRequest
    /\ round = 0
    /\ sent = <<>>
    /\ detected_style = NoneVal
    /\ active_style = NoneVal
    /\ lines = <<>>
    /\ line_no = 1
    /\ result_lines = <<>>
    /\ all_issues = <<>>
    /\ all_changes = <<>>
    /\ global_position = 0
    /\ stats = ZeroStats
    /\ calls = NoCalls
    /\ pl = NoCall
    /\ response = NoResponse
    /\ user_key = NoneVal
    /\ session_user = NoUser
    /\ usage_info = NoUsage
    /\ other = IdleFrame
    /\ users = [key \in UserKeys |-> NoUser]
    /\ subscriptions = <<>>
    /\ today = 1
    /\ granted = [key \in UserKeys |-> [day \in 1..MaxDays |-> 0]]
    /\ svc = NoSvc

\* a request of the visitor "u1" reaches the handler
Receive ==
    /\ pc = "idle"
    /\ round < MaxRequests
    /\ \E r \in Requests : req' = r
    /\ user_key' = "u1"
    /\ round' = round + 1
    /\ sent' = sent
    /\ pc' = "usage_read"
    /\ FreshLocals
    /\ UNCHANGED <<other, shared>>

\* the client sends the result_text of a conversion back, to be converted
\* again with the same mode, style and width
Resubmit ==
    /\ pc = "done"
    /\ response.status = 200
    /\ req.mode = "convert"
    /\ round < MaxRequests
    /\ req' = [req EXCEPT !.text = response.result_text]
    /\ user_key' = user_key
    /\ round' = round + 1
    /\ sent' = Append(sent, req.text)
    /\ pc' = "usage_read"
    /\ FreshLocals
    /\ UNCHANGED <<other, shared>>

\* the thread takes a fresh request of a user in keys, drawn from requests
ReceiveFrom(keys, requests) ==
    /\ pc \in {"idle", "done"}
    /\ \E r \in requests : req' = r
    /\ \E key \in keys : user_key' = key
    /\ round' = 1
    /\ sent' = <<>>
    /\ pc' = "usage_read"
    /\ FreshLocals
    /\ UNCHANGED <<other, shared>>

\* variant: check_usage_limit does not raise
usage_exit_without_raise(allowed) == "validate"

\* check_usage_limit: where the handler continues for usage_info["can_use"]
usage_exit(allowed) == IF allowed THEN "validate" ELSE "done"

\* check_usage_limit, first part: check_and_update_usage up to the point
\* where the session holds the user's row of today.  A user with an active
\* subscription is answered here.
UsageRead ==
    /\ pc = "usage_read"
    /\ calls' = [calls EXCEPT !.check_usage_limit = @ + 1]
    /\ LET created == get_or_create_user(users, user_key, today)
           synced == is_user_premium_sync(created, subscriptions, user_key)
       IN  IF has_active_subscription(subscriptions, user_key)
           THEN /\ users' = synced
                /\ session_user' = synced[user_key]
                /\ usage_info' = PremiumUsage
                /\ pc' = "validate"
           ELSE /\ users' = daily_reset(synced, user_key, today)
                /\ session_user' = users'[user_key]
                /\ usage_info' = usage_info
                /\ pc' = "usage_write"
    /\ UNCHANGED <<req, round, sent, detected_style, active_style, lines,
                   line_no, result_lines, all_issues, all_changes,
                   global_position, stats, pl, response, user_key, other,
                   subscriptions, today, granted, svc>>

\* check_usage_limit, second part: the comparison with the limit, the commit
\* of the count the session computed, and the HTTPException(429)
UsageWrite ==
    /\ pc = "usage_write"
    /\ LET allowed == can_use(session_user.daily_usage_count, USAGE_LIMIT)
           count == IF allowed
                    THEN session_user.daily_usage_count + 1
                    ELSE session_user.daily_usage_count
           \* the "today" of this call
           call_day == session_user.daily_usage_date
       IN  /\ session_user' = [session_user EXCEPT !.daily_usage_count = count]
           /\ users' = IF allowed
                       THEN [users EXCEPT ![user_key].daily_usage_count = count]
                       ELSE users
           /\ granted' =
                  IF allowed /\ granted[user_key][call_day] <= USAGE_LIMIT
                  THEN [granted EXCEPT ![user_key][call_day] = @ + 1]
                  ELSE granted
           /\ usage_info' = [used |-> count,
                             remaining |-> remaining(count, USAGE_LIMIT),
                             limit |-> USAGE_LIMIT,
                             premium |-> FALSE,
                             can_use |-> allowed]
           /\ pc' = usage_exit(allowed)
           /\ response' = IF pc' = "done"
                          THEN [NoResponse EXCEPT
                                    !.status = 429,
                                    !.detail = "daily free usage exceeded"]
                          ELSE response
    /\ UNCHANGED <<req, round, sent, detected_style, active_style, lines,
                   line_no, result_lines, all_issues, all_changes,
                   global_position, stats, calls, pl, user_key, other,
                   subscriptions, today, svc>>

\* variant: a rejected request gives its unit of the quota back
Validate_refunding_count ==
    /\ pc = "validate"
    /\ IF validate(req) # NoneVal
       THEN /\ response' = [NoResponse EXCEPT !.status = 400,
                                              !.detail = validate(req)]
            /\ users' = [users EXCEPT ![user_key].daily_usage_count =
                                          IF @ > 0 THEN @ - 1 ELSE @]
            /\ pc' = "done"
       ELSE /\ response' = response
            /\ users' = users
            /\ pc' = "detect"
    /\ UNCHANGED <<user_key, session_user, usage_info, other, subscriptions,
                   today, granted, svc>>
    /\ UNCHANGED <<req, round, sent, detected_style, active_style, lines, line_no,
                   result_lines, all_issues, all_changes, global_position,
                   stats, calls, pl>>

\* the validation block
Validate ==
    /\ pc = "validate"
    /\ IF validate(req) # NoneVal
       THEN /\ response' = [NoResponse EXCEPT !.status = 400,
                                              !.detail = validate(req)]
            /\ pc' = "done"
       ELSE /\ response' = response
            /\ pc' = "detect"
    /\ UNCHANGED <<user_key, session_user, usage_info, other, shared>>
    /\ UNCHANGED <<req, round, sent, detected_style, active_style, lines, line_no,
                   result_lines, all_issues, all_changes, global_position,
                   stats, calls, pl>>

\* detect_style(req.text), the active style and the locals of the loop
Detect ==
    /\ pc = "detect"
    /\ detected_style' = detect_style(req.text)
    /\ active_style' = resolve_active_style(req.style, detected_style')
    /\ calls' = [calls EXCEPT !.detect_style = @ + 1]
    /\ result_lines' = <<>>
    /\ all_issues' = <<>>
    /\ all_changes' = <<>>
    /\ global_position' = 0
    /\ stats' = ZeroStats
    /\ lines' = split(req.text)
    /\ line_no' = 1
    /\ pc' = "loop"
    /\ UNCHANGED <<user_key, session_user, usage_info, other, shared>>
    /\ UNCHANGED <<req, round, sent, pl, response>>

\* one iteration of "for line_no, line in enumerate(req.text.split('\n'),
\* start=1)"
ProcessLine ==
    /\ pc = "loop"
    /\ line_no <= Len(lines)
    /\ LET line == lines[line_no]
           ret == process_line(line, line_no, req.mode, active_style,
                               req.width, global_position)
       IN  /\ calls' = [calls EXCEPT !.process_line = @ + 1]
           /\ pl' = [called |-> TRUE, line |-> line, line_no |-> line_no,
                     mode |-> req.mode, active_style |-> active_style,
                     width |-> req.width,
                     global_start_pos |-> global_position, ret |-> ret]
           /\ IF ret.raised # NoneVal
              THEN \* an unhandled exception: internal server error
                   /\ response' = [NoResponse EXCEPT !.status = 500,
                                                     !.detail = ret.raised]
                   /\ pc' = "done"
                   /\ UNCHANGED <<line_no, result_lines, all_issues,
                                  all_changes, global_position, stats>>
              ELSE /\ result_lines' = Append(result_lines, ret.line)
                   /\ all_issues' = all_issues \o ret.issues
                   /\ all_changes' = all_changes \o ret.changes
                   /\ global_position' = advance(global_position, line)
                   /\ stats' = update_stats(stats, ret.issues)
                   /\ line_no' = line_no + 1
                   /\ pc' = "loop"
                   /\ response' = response
    /\ UNCHANGED <<user_key, session_user, usage_info, other, shared>>
    /\ UNCHANGED <<req, round, sent, detected_style, active_style, lines>>

\* the end of the loop: readable_stats and the returned dict
Respond ==
    /\ pc = "loop"
    /\ line_no > Len(lines)
    /\ response' =
           [status |-> 200,
            detail |-> NoneVal,
            result_text |-> join(result_lines),
            issues |-> all_issues,
            changes |-> all_changes,
            statistics |-> readable_stats(stats),
            summary |-> [detected_style |-> detected_style,
                         applied_style |-> active_style,
                         total_changes |-> Len(all_changes)]]
    /\ pc' = "done"
    /\ UNCHANGED <<user_key, session_user, usage_info, other, shared>>
    /\ UNCHANGED <<req, round, sent, detected_style, active_style, lines, line_no,
                   result_lines, all_issues, all_changes, global_position,
                   stats, calls, pl>>

\* midnight passes
NextDay ==
    /\ today < MaxDays
    /\ today' = today + 1
    /\ UNCHANGED <<frame, other, users, subscriptions, granted, svc>>

\* variant: global_position is one variable of the module, not a local of
\* each call
Switch_sharing_global_position ==
    /\ other' = [pc |-> pc, req |-> req, round |-> round, sent |-> sent,
                 detected_style |-> detected_style,
                 active_style |-> active_style, lines |-> lines,
                 line_no |-> line_no, result_lines |-> result_lines,
                 all_issues |-> all_issues, all_changes |-> all_changes,
                 global_position |-> global_position, stats |-> stats,
                 calls |-> calls, pl |-> pl, response |-> response,
                 user_key |-> user_key, session_user |-> session_user,
                 usage_info |-> usage_info]
    /\ pc' = other.pc
    /\ req' = other.req
    /\ round' = other.round
    /\ sent' = other.sent
    /\ detected_style' = other.detected_style
    /\ active_style' = other.active_style
    /\ lines' = other.lines
    /\ line_no' = other.line_no
    /\ result_lines' = other.result_lines
    /\ all_issues' = other.all_issues
    /\ all_changes' = other.all_changes
    /\ global_position' = global_position
    /\ stats' = other.stats
    /\ calls' = other.calls
    /\ pl' = other.pl
    /\ response' = other.response
    /\ user_key' = other.user_key
    /\ session_user' = other.session_user
    /\ usage_info' = other.usage_info
    /\ UNCHANGED shared

\* the running thread is suspended and the other thread runs
Switch ==
    /\ other' = [pc |-> pc, req |-> req, round |-> round, sent |-> sent,
                 detected_style |-> detected_style,
                 active_style |-> active_style, lines |-> lines,
                 line_no |-> line_no, result_lines |-> result_lines,
                 all_issues |-> all_issues, all_changes |-> all_changes,
                 global_position |-> global_position, stats |-> stats,
                 calls |-> calls, pl |-> pl, response |-> response,
                 user_key |-> user_key, session_user |-> session_user,
                 usage_info |-> usage_info]
    /\ pc' = other.pc
    /\ req' = other.req
    /\ round' = other.round
    /\ sent' = other.sent
    /\ detected_style' = other.detected_style
    /\ active_style' = other.active_style
    /\ lines' = other.lines
    /\ line_no' = other.line_no
    /\ result_lines' = other.result_lines
    /\ all_issues' = other.all_issues
    /\ all_changes' = other.all_changes
    /\ global_position' = other.global_position
    /\ stats' = other.stats
    /\ calls' = other.calls
    /\ pl' = other.pl
    /\ response' = other.response
    /\ user_key' = other.user_key
    /\ session_user' = other.session_user
    /\ usage_info' = other.usage_info
    /\ UNCHANGED shared

Next ==
    \/ Receive
    \/ UsageRead
    \/ UsageWrite
    \/ Validate
    \/ Detect
    \/ ProcessLine
    \/ Respond
    \/ Resubmit

Spec == Init /\ [][Next]_vars

----------------------------------------------------------------------------
(* The quota, one request after the other *)

QuotaRequests ==
    { [text |-> <<",">>, mode |-> "convert", style |-> "jp",
       width |-> "auto"],
      [text |-> <<",">>, mode |-> Invalid, style |-> "jp",
       width |-> "auto"] }

ReceiveQuota == ReceiveFrom({"u1"}, QuotaRequests)

\* GET /api/usage between two requests: UserService.get_usage_info is called
\* and returns
GetUsageInfo ==
    /\ Serve
    /\ LET key == "u1"
           created == get_or_create_user(users, key, today)
           synced == is_user_premium_sync(created, subscriptions, key)
           premium == has_active_subscription(subscriptions, key)
       IN  /\ users' = IF premium THEN synced
                       ELSE daily_reset(synced, key, today)
           /\ svc' = [op |-> "get_usage_info", key |-> key, sid |-> NoneVal,
                      arg |-> NoneVal, ok |-> ~premium, status |-> 200,
                      seq |-> 1 - svc.seq]
    /\ UNCHANGED <<subscriptions, today, granted>>

NextQuota ==
    \/ ReceiveQuota
    \/ UsageRead
    \/ UsageWrite
    \/ Validate
    \/ Detect
    \/ ProcessLine
    \/ Respond
    \/ NextDay
    \/ GetUsageInfo

SpecQuota == Init /\ [][NextQuota]_vars

----------------------------------------------------------------------------
(* Two worker threads handling requests of one user *)

ConcRequests ==
    { [text |-> <<"a", ",", LF, ".">>, mode |-> "convert", style |-> "jp",
       width |-> "auto"],
      [text |-> <<"U3001", ".">>, mode |-> "check", style |-> "auto",
       width |-> "half"] }

ReceiveConc == ReceiveFrom({"u1"}, ConcRequests)

NextConc ==
    \/ ReceiveConc
    \/ UsageRead
    \/ UsageWrite
    \/ Validate
    \/ Detect
    \/ ProcessLine
    \/ Respond
    \/ Switch

SpecConc == Init /\ [][NextConc]_vars

----------------------------------------------------------------------------
(* Direct calls of the core functions *)

\* the texts without line feed
LineInputs ==
    {line \in ShortTexts : \A k \in 1..Len(line) : line[k] # LF}

\* the values of Style of the interface, and no style
StyleInputs == {"jp", "en", "mixed", "none", NoneVal}

\* detect_style(text) is called and returns
CallDetectStyle ==
    /\ pc = "idle"
    /\ \E text \in ShortTexts :
           /\ req' = [NoRequest EXCEPT !.text = text]
           /\ detected_style' = detect_style(text)
    /\ calls' = [NoCalls EXCEPT !.detect_style = 1]
    /\ pl' = NoCall
    /\ pc' = "done"
    /\ UNCHANGED <<round, sent, active_style, lines, line_no,
                   result_lines, all_issues, all_changes, global_position,
                   stats, response, user_key, session_user, usage_info,
                   other, shared>>

\* process_line(line, line_no, mode, active_style, width, global_start_pos)
\* is called and returns or raises
CallProcessLine ==
    /\ pc = "idle"
    /\ \E line \in LineInputs, mode \in {"check", "convert"},
          style \in StyleInputs, width \in {"auto", "full", "half"},
          start \in {0, 7} :
           pl' = [called |-> TRUE, line |-> line, line_no |-> 1,
                  mode |-> mode, active_style |-> style, width |-> width,
                  global_start_pos |-> start,
                  ret |-> process_line(line, 1, mode, style, width, start)]
    /\ calls' = [NoCalls EXCEPT !.process_line = 1]
    /\ req' = NoRequest
    /\ detected_style' = NoneVal
    /\ pc' = "done"
    /\ UNCHANGED <<round, sent, active_style, lines, line_no,
                   result_lines, all_issues, all_changes, global_position,
                   stats, response, user_key, session_user, usage_info,
                   other, shared>>

NextCore ==
    \/ CallDetectStyle
    \/ CallProcessLine

SpecCore == Init /\ [][NextCore]_vars

----------------------------------------------------------------------------
(* Subscriptions: the success page, the Stripe webhook, the cancellation
   endpoint, and the requests of user "u1", one call after the other *)

\* the record of a call that has answered
Svc(op, key, sid, arg, ok, status) ==
    [op |-> op, key |-> key, sid |-> sid, arg |-> arg, ok |-> ok,
     status |-> status, seq |-> 1 - svc.seq]

\* the user whose subscriptions are followed
SubUsers == {"u1"}

\* room for the row create_subscription may insert for the user
HasRoom(key) ==
    active_index(subscriptions, key) # 0 \/ Len(subscriptions) < MaxSubs

\* GET /success with the session of a paid checkout
SuccessPage ==
    /\ Serve
    /\ \E key \in SubUsers, sid \in StripeIds \cup {NoneVal} :
           /\ HasRoom(key)
           /\ ~raises_type_error(success_call_keywords,
                                 create_subscription_parameters)
           /\ LET r == create_subscription(users, subscriptions, key, sid,
                                           today)
              IN  /\ users' = r.users
                  /\ subscriptions' = r.subscriptions
                  /\ svc' = Svc("success", key, NoneVal, r.raised,
                                r.raised = NoneVal, 200)
    /\ UNCHANGED <<today, granted>>

\* POST /webhook/stripe, event checkout.session.completed
WebhookCheckoutCompleted ==
    /\ Serve
    /\ \E key \in SubUsers \cup {NoneVal}, sid \in StripeIds :
           /\ Truthy(key) => HasRoom(key)
           /\ IF ~Truthy(key)
              THEN /\ UNCHANGED <<users, subscriptions>>
                   /\ svc' = Svc("checkout.session.completed", key, NoneVal,
                                 NoneVal, TRUE, 200)
              ELSE IF raises_type_error(webhook_call_keywords,
                                        create_subscription_parameters)
              THEN \* caught by "except Exception"
                   /\ UNCHANGED <<users, subscriptions>>
                   /\ svc' = Svc("checkout.session.completed", key, NoneVal,
                                 "TypeError", FALSE, 400)
              ELSE LET r == create_subscription(users, subscriptions, key,
                                                sid, today)
                   IN  IF r.raised # NoneVal
                       THEN /\ users' = r.users
                            /\ subscriptions' = r.subscriptions
                            /\ svc' = Svc("checkout.session.completed", key,
                                          NoneVal, r.raised, FALSE, 400)
                       ELSE /\ users' = [r.users EXCEPT
                                            ![key].is_premium = TRUE]
                            /\ subscriptions' = r.subscriptions
                            /\ svc' = Svc("checkout.session.completed", key,
                                          NoneVal, NoneVal, TRUE, 200)
    /\ UNCHANGED <<today, granted>>

\* POST /webhook/stripe, event customer.subscription.updated
WebhookSubscriptionUpdated ==
    /\ Serve
    /\ \E sid \in StripeIds, status \in {"active", "trialing", "canceled"} :
           LET k == stripe_index(subscriptions, sid)
           IN  /\ subscriptions' =
                      IF k # 0
                      THEN [subscriptions EXCEPT
                               ![k].is_active =
                                   (status \in {"active", "trialing"})]
                      ELSE subscriptions
               /\ svc' = Svc("customer.subscription.updated", NoneVal, sid,
                             status, TRUE, 200)
    /\ UNCHANGED <<users, today, granted>>

\* POST /webhook/stripe, event customer.subscription.deleted
WebhookSubscriptionDeleted ==
    /\ Serve
    /\ \E sid \in StripeIds :
           LET k == stripe_index(subscriptions, sid)
               key == subscriptions[k].user_key
           IN  /\ IF k # 0
                  THEN /\ subscriptions' =
                              [subscriptions EXCEPT
                                  ![k].is_active = FALSE,
                                  ![k].canceled_at = TRUE]
                       /\ users' = IF users[key].exists
                                   THEN [users EXCEPT
                                            ![key].is_premium = FALSE]
                                   ELSE users
                  ELSE UNCHANGED <<users, subscriptions>>
               /\ svc' = Svc("customer.subscription.deleted", NoneVal, sid,
                             NoneVal, TRUE, 200)
    /\ UNCHANGED <<today, granted>>

\* POST /api/subscription/cancel; stripe_ok: stripe.Subscription.cancel
\* returns rather than raising StripeError
CancelEndpoint ==
    /\ Serve
    /\ \E key \in SubUsers, stripe_ok \in BOOLEAN :
           LET k == active_index(subscriptions, key)
               sid == subscriptions[k].stripe_subscription_id
           IN  IF k = 0
               THEN /\ UNCHANGED <<users, subscriptions>>
                    /\ svc' = Svc("cancel", key, NoneVal, NoneVal, FALSE,
                                  200)
               ELSE IF Truthy(sid) /\ ~stripe_ok
               THEN /\ UNCHANGED <<users, subscriptions>>
                    /\ svc' = Svc("cancel", key, NoneVal, "StripeError",
                                  FALSE, 200)
               ELSE LET r == cancel_subscription(users, subscriptions, key)
                    IN  /\ users' = r.users
                        /\ subscriptions' = r.subscriptions
                        /\ svc' = Svc("cancel", key, NoneVal, NoneVal,
                                      r.ret, 200)
    /\ UNCHANGED <<today, granted>>

\* SubscriptionService.is_user_premium is called and returns
CallIsUserPremium ==
    /\ Serve
    /\ \E key \in SubUsers :
           /\ users' = is_user_premium_sync(users, subscriptions, key)
           /\ svc' = Svc("is_user_premium", key, NoneVal, NoneVal,
                         has_active_subscription(subscriptions, key), 0)
    /\ UNCHANGED <<subscriptions, today, granted>>

SubRequests ==
    { [text |-> <<",">>, mode |-> "convert", style |-> "jp",
       width |-> "auto"] }

ReceiveSub ==
    /\ granted["u1"][today] < MaxGrants
    /\ ReceiveFrom({"u1"}, SubRequests)

NextSub ==
    \/ ReceiveSub
    \/ UsageRead
    \/ UsageWrite
    \/ Validate
    \/ Detect
    \/ ProcessLine
    \/ Respond
    \/ NextDay
    \/ SuccessPage
    \/ WebhookCheckoutCompleted
    \/ WebhookSubscriptionUpdated
    \/ WebhookSubscriptionDeleted
    \/ CancelEndpoint
    \/ CallIsUserPremium

SpecSub == Init /\ [][NextSub]_vars


----------------------------------------------------------------------------
(* Properties of process_line, stated on its last call pl *)

\* the set of the 0-based indices of line that hold a recognized sign
SignIndices(line) == {i \in 0..(Len(line) - 1) : At(line, i) \in DOMAIN SIGN_MAP}

\* C1: in convert mode with an active style S in {jp, en}, the returned line
\* has, at every index, OUTPUT_MAP[S][W][role] for a sign of that role and
\* the input character for any other character, where W is "full" for width
\* "auto" and S = "jp", "half" for width "auto" and S = "en", and the width
\* preference otherwise.
C1_ConvertRewritesEverySign ==
    (pl.called /\ pl.mode = "convert" /\ pl.active_style \in {"jp", "en"}) =>
        LET S == pl.active_style
            W == CASE pl.width = "auto" /\ S = "jp" -> "full"
                   [] pl.width = "auto" /\ S # "jp" -> "half"
                   [] OTHER -> pl.width
        IN  /\ pl.ret.raised = NoneVal
            /\ Len(pl.ret.line) = Len(pl.line)
            /\ \A k \in 1..Len(pl.line) :
                   pl.ret.line[k] =
                       IF pl.line[k] \in DOMAIN SIGN_MAP
                       THEN OUTPUT_MAP[S][W][SIGN_MAP[pl.line[k]]]
                       ELSE pl.line[k]

\* a conversion to jp with width "auto" has rewritten "a,b" to "a" U3001 "b"
C1_Witness ==
    /\ pl.called
    /\ pl.mode = "convert"
    /\ pl.active_style = "jp"
    /\ pl.width = "auto"
    /\ pl.line = <<"a", ",", "b">>
    /\ pl.ret.line = <<"a", "U3001", "b">>

\* C2: when the mode is "check" or the active style is None or empty, the
\* returned line equals the input line and no Change is returned.
C2_NoSubstitutionUnlessConvertAndStyle ==
    (pl.called /\ (pl.mode = "check" \/ pl.active_style \in {NoneVal, ""})) =>
        /\ pl.ret.line = pl.line
        /\ pl.ret.changes = <<>>

\* a convert call without active style has passed a line with two signs of
\* different families through
C2_Witness ==
    /\ pl.called
    /\ pl.mode = "convert"
    /\ pl.active_style = NoneVal
    /\ pl.line = <<"U3001", "a", ".">>
    /\ pl.ret.line = pl.line
    /\ pl.ret.changes = <<>>

\* C3: in check mode the returned line equals the input line, for every
\* active style and width.
C3_CheckModeKeepsLine ==
    (pl.called /\ pl.mode = "check") =>
        /\ Len(pl.ret.line) = Len(pl.line)
        /\ \A k \in 1..Len(pl.line) : pl.ret.line[k] = pl.line[k]

\* a check call with active style jp and width "half" has returned a line
\* of Western signs unchanged
C3_Witness ==
    /\ pl.called
    /\ pl.mode = "check"
    /\ pl.active_style = "jp"
    /\ pl.width = "half"
    /\ pl.line = <<",", "UFF0E">>
    /\ pl.ret.line = <<",", "UFF0E">>

----------------------------------------------------------------------------
(* Properties of detect_style and of the Issues and Changes *)

\* the text holds a Japanese sign
HasJpSign(text) ==
    \E k \in 1..Len(text) : text[k] \in {"U3001", "U3002"}

\* the text holds a Western sign
HasEnSign(text) ==
    \E k \in 1..Len(text) : text[k] \in {"UFF0C", ",", "UFF0E", "."}

\* C4: the detected style of a request text is "mixed" iff the text holds a
\* Japanese sign and a Western sign, "jp" iff it holds Japanese signs only,
\* "en" iff it holds Western signs only and "none" iff it holds no sign; no
\* other character (the half-width Japanese signs included) has any effect.
C4_DetectStyleBySigns ==
    (calls.detect_style > 0) =>
        /\ detected_style \in {"jp", "en", "mixed", "none"}
        /\ detected_style = "mixed"
               <=> (HasJpSign(req.text) /\ HasEnSign(req.text))
        /\ detected_style = "jp"
               <=> (HasJpSign(req.text) /\ ~HasEnSign(req.text))
        /\ detected_style = "en"
               <=> (~HasJpSign(req.text) /\ HasEnSign(req.text))
        /\ detected_style = "none"
               <=> (~HasJpSign(req.text) /\ ~HasEnSign(req.text))

\* "a" U3001 "b" "." "c" has been detected as mixed
C4_Witness ==
    /\ calls.detect_style > 0
    /\ req.text = <<"a", "U3001", "b", ".", "c">>
    /\ detected_style = "mixed"

\* C5: the Issues of a call are exactly one per sign of the line, in
\* strictly increasing order of index, each with the line number of the
\* call, the index of its sign, the role of that sign and the message of the
\* role.  The list is so determined by the line and the line number alone:
\* it is the same for every mode, active style and width.
C5_OneIssuePerSignInOrder ==
    pl.called =>
        LET issues == pl.ret.issues
        IN  /\ Len(issues) = Cardinality(SignIndices(pl.line))
            /\ \A j \in 1..(Len(issues) - 1) :
                   issues[j].index < issues[j + 1].index
            /\ \A j \in 1..Len(issues) :
                   /\ issues[j].index \in SignIndices(pl.line)
                   /\ issues[j].line = pl.line_no
                   /\ issues[j].type = SIGN_MAP[At(pl.line, issues[j].index)]
                   /\ issues[j].message = create_message(issues[j].type)
                   /\ issues[j].message # "found: unknown punctuation"

\* a conversion to en has rewritten both signs of the second line and still
\* reports an Issue for each
C5_Witness ==
    /\ pl.called
    /\ pl.mode = "convert"
    /\ pl.active_style = "en"
    /\ pl.line_no = 2
    /\ pl.line = <<"U3001", "U3002">>
    /\ Len(pl.ret.issues) = 2
    /\ pl.ret.issues[1].index = 0
    /\ pl.ret.issues[2].type = JP_PERIOD

\* C6: the Changes of a call are exactly one per sign for which a
\* substitution was attempted (mode "convert" and a non-empty active style)
\* and whose output glyph differs from the input glyph, in strictly
\* increasing order of position; each has position = global_start_pos +
\* index within the line, original = the input glyph and converted = the
\* output glyph.
C6_ChangeIffGlyphDiffers ==
    pl.called =>
        LET changes == pl.ret.changes
            attempted == pl.mode = "convert"
                            /\ pl.active_style \notin {NoneVal, ""}
            differing == {i \in SignIndices(pl.line) :
                             attempted /\ At(pl.ret.line, i) # At(pl.line, i)}
        IN  /\ Len(changes) = Cardinality(differing)
            /\ \A j \in 1..(Len(changes) - 1) :
                   changes[j].position < changes[j + 1].position
            /\ \A j \in 1..Len(changes) :
                   LET i == changes[j].position - pl.global_start_pos
                   IN  /\ i \in differing
                       /\ changes[j].line = pl.line_no
                       /\ changes[j].original = At(pl.line, i)
                       /\ changes[j].converted = At(pl.ret.line, i)

\* on a line that starts at offset 1, a conversion to jp has changed the
\* Western comma and left the Japanese comma: one Change for two signs
C6_Witness ==
    /\ pl.called
    /\ pl.global_start_pos = 1
    /\ pl.line = <<"U3001", ",">>
    /\ pl.ret.line = <<"U3001", "U3001">>
    /\ pl.ret.changes = << [line |-> pl.line_no, position |-> 2,
                            original |-> ",", converted |-> "U3001"] >>

----------------------------------------------------------------------------
(* Properties of the handler check_punctuation *)

\* the handler has returned its result dict
Answered == pc = "done" /\ response.status = 200

\* C7: for a text without carriage return, every Change of the answer has
\* a position that is an index of the request text and holds there the
\* original glyph of the Change; "a,b\nc.d" converted to jp with width
\* "auto" has its Changes at positions 1 and 5.
C7_ChangePositionIndexesText ==
    (Answered /\ \A k \in 1..Len(req.text) : req.text[k] # CR) =>
        /\ \A j \in 1..Len(response.changes) :
               /\ response.changes[j].position \in 0..(Len(req.text) - 1)
               /\ At(req.text, response.changes[j].position)
                      = response.changes[j].original
        /\ (/\ req.text = <<"a", ",", "b", LF, "c", ".", "d">>
            /\ req.mode = "convert"
            /\ req.style = "jp"
            /\ req.width = "auto")
               => /\ Len(response.changes) = 2
                  /\ response.changes[1].position = 1
                  /\ response.changes[1].original = ","
                  /\ response.changes[2].position = 5
                  /\ response.changes[2].original = "."

\* "a,b\nc.d" has been converted to jp with width "auto", with Changes at
\* the positions 1 and 5
C7_Witness ==
    /\ Answered
    /\ req.text = <<"a", ",", "b", LF, "c", ".", "d">>
    /\ req.mode = "convert"
    /\ req.style = "jp"
    /\ req.width = "auto"
    /\ response.result_text = <<"a", "U3001", "b", LF, "c", "U3002", "d">>
    /\ response.changes[1].position = 1
    /\ response.changes[2].position = 5

\* C8: once the active style is resolved, it is the requested style when
\* that is "jp" or "en"; for the requested style "auto" it is the detected
\* style when that is "jp" or "en" and None otherwise, and then the answer
\* to a convert request has result_text equal to the text, no Change, and
\* one Issue per sign of the text.
C8_ActiveStyleResolution ==
    (calls.detect_style > 0) =>
        /\ req.style \in {"jp", "en"} => active_style = req.style
        /\ (req.style = "auto" /\ detected_style \in {"jp", "en"})
               => active_style = detected_style
        /\ (req.style = "auto" /\ detected_style \in {"mixed", "none"})
               => /\ active_style = NoneVal
                  /\ (Answered /\ req.mode = "convert")
                         => /\ response.result_text = req.text
                            /\ response.changes = <<>>
                            /\ response.summary.total_changes = 0
                            /\ Len(response.issues)
                                   = Cardinality(SignIndices(req.text))

\* a convert request with style "auto" for a mixed text has been answered
\* with the text unchanged and both Issues
C8_Witness ==
    /\ Answered
    /\ req.mode = "convert"
    /\ req.style = "auto"
    /\ req.text = <<"a", "U3001", "b", ".", "c">>
    /\ detected_style = "mixed"
    /\ active_style = NoneVal
    /\ response.result_text = req.text
    /\ Len(response.issues) = 2
    /\ response.changes = <<>>

\* C9: for style S in {jp, en} and width W in {full, half}, the answer to a
\* convert request whose text is the result_text of the same conversion has
\* result_text equal to the text and no Change; and so has the answer to any
\* convert request whose signs all are already their (S, W) glyphs.
C9_RoundTripStable ==
    (/\ Answered
     /\ req.mode = "convert"
     /\ req.style \in {"jp", "en"}
     /\ req.width \in {"full", "half"}) =>
        /\ round > 1 => /\ response.result_text = req.text
                        /\ response.changes = <<>>
        /\ (\A k \in 1..Len(req.text) :
                req.text[k] \in DOMAIN SIGN_MAP =>
                    req.text[k] = OUTPUT_MAP[req.style][req.width]
                                            [SIGN_MAP[req.text[k]]])
               => /\ response.result_text = req.text
                  /\ response.changes = <<>>

\* "," "a" U3002 was converted to en/full, and the result sent back has
\* been converted to en/full again without any Change
C9_Witness ==
    /\ Answered
    /\ round = 2
    /\ req.mode = "convert"
    /\ req.style = "en"
    /\ req.width = "full"
    /\ sent = << <<",", "a", "U3002">> >>
    /\ req.text = <<"UFF0C", "a", "UFF0E">>
    /\ response.result_text = req.text
    /\ response.changes = <<>>

\* the request fails the validation block
Rejected(r) ==
    \/ \A k \in 1..Len(r.text) : r.text[k] \in Whitespace
    \/ Len(r.text) > 10000
    \/ r.mode \notin {"check", "convert"}
    \/ r.style \notin {"jp", "en", "auto"}
    \/ r.width \notin {"auto", "full", "half"}

\* C10: a request whose text is empty after trimming or longer than 10000
\* characters, or whose mode, style or width is outside its enumeration, is
\* answered with status 400 and a reason, without any call of detect_style
\* or process_line and without a result; a valid request with a text of
\* exactly 10000 characters is answered with its result.
C10_ValidationRejectsBeforeProcessing ==
    /\ (pc # "idle" /\ Rejected(req)) =>
           /\ pc \in {"usage_read", "usage_write", "validate", "done"}
           /\ calls.detect_style = 0
           /\ calls.process_line = 0
           /\ ~pl.called
           /\ pc = "done" =>
                  /\ response.status = 400
                  /\ response.detail # NoneVal
                  /\ response.result_text = <<>>
                  /\ response.issues = <<>>
                  /\ response.changes = <<>>
                  /\ response.statistics = <<>>
    /\ (/\ pc = "done"
        /\ Len(req.text) = 10000
        /\ req.mode \in {"check", "convert"}
        /\ req.style \in {"jp", "en", "auto"}
        /\ req.width \in {"auto", "full", "half"})
           => /\ response.status = 200
              /\ Len(response.result_text) = 10000

\* a text of 10001 characters has been rejected as too long, unprocessed
C10_Witness ==
    /\ pc = "done"
    /\ Len(req.text) = 10001
    /\ req.mode = "convert"
    /\ req.style = "jp"
    /\ response.status = 400
    /\ response.detail = "text is too long"
    /\ calls.detect_style = 0
    /\ calls.process_line = 0

----------------------------------------------------------------------------
\* C11: the quota check is called exactly once per request and before any
\* processing; a request it reports as not allowed is rejected with HTTP 429
\* and detect_style and process_line are never called for it.
C11_QuotaCheckedOnceBeforeCore ==
    /\ calls.check_usage_limit =
           (IF pc \in {"idle", "usage_read"} THEN 0 ELSE 1)
    /\ (pc \in {"idle", "usage_read", "usage_write"}) =>
           /\ calls.detect_style = 0
           /\ calls.process_line = 0
           /\ ~pl.called
    /\ (calls.detect_style > 0 \/ calls.process_line > 0 \/ pl.called) =>
           usage_info.can_use
    /\ (pc \notin {"idle", "usage_read", "usage_write"}
            /\ ~usage_info.can_use) =>
           /\ pc = "done"
           /\ response.status = 429
           /\ calls.detect_style = 0
           /\ calls.process_line = 0
           /\ ~pl.called

\* a request over the quota has been answered
C11_Witness ==
    /\ pc = "done"
    /\ calls.check_usage_limit = 1
    /\ ~usage_info.can_use
    /\ response.status = 429
    /\ req.mode = "convert"
    /\ users[user_key].daily_usage_count = USAGE_LIMIT

----------------------------------------------------------------------------
\* the number of characters of a text before line k of its lines ls, the
\* line feeds included
RECURSIVE chars_before(_, _)
chars_before(ls, k) ==
    IF k = 1 THEN 0 ELSE chars_before(ls, k - 1) + Len(ls[k - 1]) + 1

\* C12: the answer is assembled in line order: result_text has as many lines
\* as the request text and line k is the processed line k of
\* text.split("\n"); issues and changes are the lists of the lines put one
\* after the other in line order, with line numbers counted from 1;
\* summary.total_changes is the number of Changes, summary.detected_style is
\* detect_style(text) and summary.applied_style is the resolved active style.
C12_ResultAssembledInLineOrder ==
    Answered =>
        LET ls == split(req.text)
            out == split(response.result_text)
            detected == detect_style(req.text)
            applied == resolve_active_style(req.style, detected)
            per(k) == process_line(ls[k], k, req.mode, applied, req.width,
                                   chars_before(ls, k))
            OfLine(k, items) ==
                LET InLine(item) == item.line = k IN SelectSeq(items, InLine)
        IN  /\ Len(out) = Len(ls)
            /\ \A k \in 1..Len(ls) :
                   /\ out[k] = per(k).line
                   /\ OfLine(k, response.issues) = per(k).issues
                   /\ OfLine(k, response.changes) = per(k).changes
            /\ \A j \in 1..Len(response.issues) :
                   /\ response.issues[j].line \in 1..Len(ls)
                   /\ j > 1 => response.issues[j - 1].line
                                   <= response.issues[j].line
            /\ \A j \in 1..Len(response.changes) :
                   /\ response.changes[j].line \in 1..Len(ls)
                   /\ j > 1 => response.changes[j - 1].line
                                   <= response.changes[j].line
            /\ response.summary.total_changes = Len(response.changes)
            /\ response.summary.detected_style = detected
            /\ response.summary.applied_style = applied

\* "a,b\nc.d" converted to jp: two lines, one Issue and one Change in each
C12_Witness ==
    /\ Answered
    /\ req.text = <<"a", ",", "b", LF, "c", ".", "d">>
    /\ req.mode = "convert"
    /\ req.style = "jp"
    /\ response.result_text = <<"a", "U3001", "b", LF, "c", "U3002", "d">>
    /\ Len(response.issues) = 2
    /\ response.issues[2].line = 2
    /\ response.changes[1].line = 1
    /\ response.summary.total_changes = 2
    /\ response.summary.detected_style = "en"
    /\ response.summary.applied_style = "jp"

----------------------------------------------------------------------------
\* the sum of the counts of the entries k.. of a statistics list
RECURSIVE sum_counts(_, _)
sum_counts(statistics, k) ==
    IF k > Len(statistics) THEN 0
    ELSE statistics[k].count + sum_counts(statistics, k + 1)

\* C13: the count of a role is the number of Issues of that role over all
\* lines; the statistics hold exactly one entry for each role with a count
\* above zero, in the order jp-comma, jp-period, en-comma-full,
\* en-comma-half, en-period-full, en-period-half, and none for a role that
\* does not occur; the counts sum to the number of Issues; the statistics
\* are determined by the text alone, whatever mode, style and width are.
C13_StatisticsCountIssuesPerRole ==
    Answered =>
        LET count(role) ==
                Cardinality({j \in 1..Len(response.issues) :
                                 response.issues[j].type = role})
            in_text(role) ==
                Cardinality({k \in 1..Len(req.text) :
                                 /\ req.text[k] \in DOMAIN SIGN_MAP
                                 /\ SIGN_MAP[req.text[k]] = role})
            Occurs(role) == count(role) > 0
            shown == SelectSeq(RoleOrder, Occurs)
        IN  /\ Len(response.statistics) = Len(shown)
            /\ \A k \in 1..Len(shown) :
                   /\ response.statistics[k].label = stat_label(shown[k])
                   /\ response.statistics[k].count = count(shown[k])
                   /\ response.statistics[k].count > 0
            /\ sum_counts(response.statistics, 1) = Len(response.issues)
            /\ \A k \in 1..Len(RoleOrder) :
                   count(RoleOrder[k]) = in_text(RoleOrder[k])

\* two lines with a half-width comma each, checked only: one entry, count 2
C13_Witness ==
    /\ Answered
    /\ req.text = <<",", LF, ",">>
    /\ req.mode = "check"
    /\ Len(response.statistics) = 1
    /\ response.statistics[1].label = stat_label(EN_COMMA_HALF)
    /\ response.statistics[1].count = 2
    /\ Len(response.issues) = 2

----------------------------------------------------------------------------
\* the six roles
Roles == {RoleOrder[k] : k \in 1..Len(RoleOrder)}

\* C14: SIGN_MAP maps six distinct glyphs to six distinct roles, every role
\* has a family in ROLE_TO_STYLE, OUTPUT_MAP holds an output glyph for every
\* style of {jp, en}, width of {full, half} and role, and no process_line
\* call that rewrites a line looks up a role OUTPUT_MAP does not hold (the
\* fallback to the original glyph is never taken).
C14_TablesTotal ==
    /\ Cardinality(DOMAIN SIGN_MAP) = 6
    /\ Cardinality(Roles) = 6
    /\ {SIGN_MAP[g] : g \in DOMAIN SIGN_MAP} = Roles
    /\ \A g, h \in DOMAIN SIGN_MAP : SIGN_MAP[g] = SIGN_MAP[h] => g = h
    /\ \A role \in Roles :
           /\ role \in DOMAIN ROLE_TO_STYLE
           /\ ROLE_TO_STYLE[role] \in {"jp", "en"}
    /\ \A style \in {"jp", "en"}, width \in {"full", "half"} :
           /\ style \in DOMAIN OUTPUT_MAP
           /\ width \in DOMAIN OUTPUT_MAP[style]
           /\ \A role \in Roles : role \in DOMAIN OUTPUT_MAP[style][width]
    /\ (/\ pl.called
        /\ SubstitutionAttempted(pl.mode, pl.active_style)
        /\ pl.ret.raised = NoneVal) =>
           \A i \in SignIndices(pl.line) :
               SIGN_MAP[At(pl.line, i)] \in DOMAIN
                   OUTPUT_MAP[pl.active_style]
                             [target_width(pl.active_style, pl.width)]

\* a line with the half-width period has been rewritten to jp, width half
C14_Witness ==
    /\ pl.called
    /\ pl.mode = "convert"
    /\ pl.active_style = "jp"
    /\ pl.width = "half"
    /\ pl.line = <<"a", ".">>
    /\ pl.ret.line = <<"a", "UFF61">>

----------------------------------------------------------------------------
----------------------------------------------------------------------------
\* the text "Hello, world."
HelloWorld ==
    <<"H", "e", "l", "l", "o", ",", " ", "w", "o", "r", "l", "d", ".">>

\* C16: the request with the text "Hello, world.", mode convert, style jp
\* and width auto is processed with active style jp and width full and is
\* answered with result_text "Hello<U3001> world<U3002>", two Issues and
\* exactly two Changes, at position 5 ("," to U3001) and at position 12
\* ("." to U3002).
C16_HelloWorldConvertedToJp ==
    (/\ Answered
     /\ req = [text |-> HelloWorld, mode |-> "convert", style |-> "jp",
               width |-> "auto"]) =>
        /\ response.summary.applied_style = "jp"
        /\ pl.active_style = "jp"
        /\ target_width(pl.active_style, pl.width) = "full"
        /\ response.result_text =
               <<"H", "e", "l", "l", "o", "U3001", " ", "w", "o", "r", "l",
                 "d", "U3002">>
        /\ Len(response.issues) = 2
        /\ Len(response.changes) = 2
        /\ response.changes[1].position = 5
        /\ response.changes[1].original = ","
        /\ response.changes[1].converted = "U3001"
        /\ response.changes[2].position = 12
        /\ response.changes[2].original = "."
        /\ response.changes[2].converted = "U3002"

\* the request has been answered
C16_Witness ==
    /\ Answered
    /\ req = [text |-> HelloWorld, mode |-> "convert", style |-> "jp",
              width |-> "auto"]
    /\ calls.process_line = 1
    /\ response.summary.total_changes = 2

----------------------------------------------------------------------------
\* the text separates lines by carriage return + line feed
UsesCrLf(text) ==
    /\ \E k \in 1..Len(text) : text[k] = LF
    /\ \A k \in 1..Len(text) :
           text[k] = LF => (k > 1 /\ text[k - 1] = CR)

\* C17, as claimed: for a text whose line separators are carriage return +
\* line feed, the positions of the Changes desynchronize: there is a Change
\* whose position p has text[p] different from its original glyph.
C17_CrLfDesynchronizesPositions ==
    (Answered /\ UsesCrLf(req.text) /\ Len(response.changes) > 0) =>
        \E j \in 1..Len(response.changes) :
            \/ response.changes[j].position \notin 0..(Len(req.text) - 1)
            \/ At(req.text, response.changes[j].position)
                   # response.changes[j].original

\* C17, amended: the offset arithmetic is exact for carriage return + line
\* feed separators too: the carriage return stays in its line and is counted
\* with it, so every Change of a text holding carriage returns has a
\* position p that is an index of the text with text[p] equal to its
\* original glyph.
C17_PositionsExactWithCarriageReturn ==
    (Answered /\ \E k \in 1..Len(req.text) : req.text[k] = CR) =>
        \A j \in 1..Len(response.changes) :
            /\ response.changes[j].position \in 0..(Len(req.text) - 1)
            /\ At(req.text, response.changes[j].position)
                   = response.changes[j].original

\* "a,\r\nb." converted to jp: the Change of line 2 is at position 5
C17_Witness ==
    /\ Answered
    /\ req.text = <<"a", ",", CR, LF, "b", ".">>
    /\ UsesCrLf(req.text)
    /\ Len(response.changes) = 2
    /\ response.changes[2].line = 2
    /\ response.changes[2].position = 5
    /\ response.changes[2].original = "."

----------------------------------------------------------------------------
\* the loop of check_punctuation run alone over the first k lines of ls
RECURSIVE lines_result(_, _, _, _, _)
lines_result(ls, k, mode, style, width) ==
    IF k = 0
    THEN [result_lines |-> <<>>, issues |-> <<>>, changes |-> <<>>,
          stats |-> ZeroStats]
    ELSE LET before == lines_result(ls, k - 1, mode, style, width)
             ret == process_line(ls[k], k, mode, style, width,
                                 chars_before(ls, k))
         IN  [result_lines |-> Append(before.result_lines, ret.line),
              issues |-> before.issues \o ret.issues,
              changes |-> before.changes \o ret.changes,
              stats |-> update_stats(before.stats, ret.issues)]

\* the answer to the allowed, valid request r when it runs alone
HandlerResult(r) ==
    LET ls == split(r.text)
        detected == detect_style(r.text)
        applied == resolve_active_style(r.style, detected)
        all == lines_result(ls, Len(ls), r.mode, applied, r.width)
    IN  [status |-> 200,
         detail |-> NoneVal,
         result_text |-> join(all.result_lines),
         issues |-> all.issues,
         changes |-> all.changes,
         statistics |-> readable_stats(all.stats),
         summary |-> [detected_style |-> detected,
                      applied_style |-> applied,
                      total_changes |-> Len(all.changes)]]

\* C18: requests are independent: under any interleaving of two requests,
\* the answer to each allowed, valid request (result_text, issues, changes,
\* statistics, summary) is the answer the request gets when it runs alone.
C18_AnswerAsIfAlone ==
    /\ Answered => response = HandlerResult(req)
    /\ (other.pc = "done" /\ other.response.status = 200) =>
           other.response = HandlerResult(other.req)

\* a request has been answered while the other thread stands in the middle
\* of the loop of another request
C18_Witness ==
    /\ Answered
    /\ req.mode = "check"
    /\ other.pc = "loop"
    /\ other.line_no = 2
    /\ other.req.mode = "convert"
    /\ other.req # req

----------------------------------------------------------------------------
\* check_and_update_usage has returned to the request of the running thread
UsageReturned == pc \notin {"idle", "usage_read", "usage_write"}

\* C19: for a user without an active subscription whose requests run one
\* after the other, daily_usage_count never exceeds usage_limit; the count
\* of a day is the number of calls of that day answered can_use = True (each
\* of them added 1, no other call changed it), so exactly the first
\* usage_limit calls of a day are answered True; a call answered False found
\* the count at the limit, left it there and made check_usage_limit raise
\* HTTP 429; "remaining" is max(0, usage_limit - count).
C19_SequentialQuota ==
    /\ \A key \in UserKeys :
           /\ users[key].daily_usage_count <= USAGE_LIMIT
           /\ users[key].exists =>
                  users[key].daily_usage_count
                      = granted[key][users[key].daily_usage_date]
           /\ \A day \in 1..MaxDays : granted[key][day] <= USAGE_LIMIT
    /\ (UsageReturned /\ ~usage_info.premium) =>
           LET count == users[user_key].daily_usage_count
           IN  /\ usage_info.used = count
               /\ usage_info.limit = USAGE_LIMIT
               /\ usage_info.remaining =
                      (IF USAGE_LIMIT - count > 0
                       THEN USAGE_LIMIT - count ELSE 0)
               /\ usage_info.can_use => count \in 1..USAGE_LIMIT
               /\ ~usage_info.can_use =>
                      /\ count = USAGE_LIMIT
                      /\ pc = "done"
                      /\ response.status = 429

\* the request after the last allowed one of day 2 has been rejected
C19_Witness ==
    /\ pc = "done"
    /\ response.status = 429
    /\ ~usage_info.can_use
    /\ usage_info.remaining = 0
    /\ today = 2
    /\ users[user_key].daily_usage_date = 2
    /\ users[user_key].daily_usage_count = USAGE_LIMIT
    /\ granted[user_key][2] = USAGE_LIMIT
    /\ granted[user_key][1] > 0

----------------------------------------------------------------------------
\* C20: when requests of one user without an active subscription run
\* concurrently, each reading the count, comparing it with the limit and
\* writing count + 1 in its own session, the number of requests of one day
\* answered can_use = True never exceeds usage_limit.
C20_GrantsNeverExceedLimit ==
    \A key \in UserKeys : \A day \in 1..MaxDays :
        granted[key][day] <= USAGE_LIMIT

----------------------------------------------------------------------------
\* the step is the first part of check_and_update_usage for a user without
\* active subscription
IsUsageReadStep == pc = "usage_read" /\ pc' = "usage_write"

\* the step is the second part of check_and_update_usage
IsUsageWriteStep == pc = "usage_write" /\ pc' # "usage_write"

\* C21: when the stored daily_usage_date of a user without active
\* subscription differs from today, check_and_update_usage and
\* get_usage_info first set the date to today and the count to 0; the first
\* request of a new day is therefore allowed, also when the count of the day
\* before had reached the limit, and after it the count is 1.
C21_DayRolloverResetsCount ==
    [][/\ IsUsageReadStep =>
              /\ users'[user_key].daily_usage_date = today
              /\ session_user' = users'[user_key]
              /\ (users[user_key].exists
                      /\ users[user_key].daily_usage_date # today) =>
                     users'[user_key].daily_usage_count = 0
              /\ (users[user_key].exists
                      /\ users[user_key].daily_usage_date = today) =>
                     users'[user_key].daily_usage_count
                         = users[user_key].daily_usage_count
       /\ (IsUsageWriteStep /\ session_user.daily_usage_count = 0) =>
              /\ usage_info'.can_use
              /\ pc' = "validate"
              /\ users'[user_key].daily_usage_count = 1
       /\ (svc'.seq # svc.seq /\ svc'.op = "get_usage_info" /\ svc'.ok) =>
              /\ users'[svc'.key].daily_usage_date = today
              /\ (users[svc'.key].exists
                      /\ users[svc'.key].daily_usage_date # today) =>
                     users'[svc'.key].daily_usage_count = 0
      ]_vars

\* the first request of day 2 has been allowed after day 1 was used up
C21_Witness ==
    /\ today = 2
    /\ granted["u1"][1] = USAGE_LIMIT
    /\ granted["u1"][2] = 1
    /\ pc = "validate"
    /\ usage_info.can_use
    /\ users["u1"].daily_usage_date = 2
    /\ users["u1"].daily_usage_count = 1

----------------------------------------------------------------------------
\* some subscription of the user is active
Subscribed(subscriptions_, key) ==
    Cardinality({k \in 1..Len(subscriptions_) :
                    /\ subscriptions_[k].user_key = key
                    /\ subscriptions_[k].is_active}) > 0

\* C22: for a user with an active subscription every check_and_update_usage
\* call returns can_use = True with limit = -1 and remaining = -1,
\* check_usage_limit does not raise 429, and the daily_usage_count and the
\* daily_usage_date of the user stay as they were.
C22_SubscriberNeverLimited ==
    [][(pc = "usage_read" /\ pc' # "usage_read"
            /\ Subscribed(subscriptions, user_key)) =>
           /\ usage_info'.can_use
           /\ usage_info'.premium
           /\ usage_info'.limit = -1
           /\ usage_info'.remaining = -1
           /\ pc' = "validate"
           /\ response'.status # 429
           /\ users[user_key].exists =>
                  /\ users'[user_key].daily_usage_count
                         = users[user_key].daily_usage_count
                  /\ users'[user_key].daily_usage_date
                         = users[user_key].daily_usage_date
      ]_vars

\* a subscriber's request has passed the quota check on day 2 with the date
\* and the count of day 1 still stored
C22_Witness ==
    /\ pc = "validate"
    /\ usage_info.premium
    /\ usage_info.limit = -1
    /\ today = 2
    /\ users[user_key].daily_usage_date = 1
    /\ users[user_key].daily_usage_count = 1

----------------------------------------------------------------------------
\* the step is a call recorded in svc
IsCall(op) == svc'.seq # svc.seq /\ svc'.op = op

\* C23: is_user_premium returns True exactly when the user has a
\* subscription with is_active = True, and when it returns the is_premium
\* flag of the user (if the user exists) equals the returned value, whatever
\* the flag was before; the subscriptions are not changed.
C23_IsUserPremiumSyncsFlag ==
    [][IsCall("is_user_premium") =>
           /\ svc'.ok = Subscribed(subscriptions, svc'.key)
           /\ subscriptions' = subscriptions
           /\ users'[svc'.key].exists = users[svc'.key].exists
           /\ users'[svc'.key].exists =>
                  users'[svc'.key].is_premium = svc'.ok
      ]_vars

\* is_user_premium has returned False for a user whose subscription was
\* deactivated by customer.subscription.updated, and the flag is False
C23_Witness ==
    /\ svc.op = "is_user_premium"
    /\ ~svc.ok
    /\ users[svc.key].exists
    /\ ~users[svc.key].is_premium
    /\ Len(subscriptions) = 1
    /\ subscriptions[1].user_key = svc.key
    /\ ~subscriptions[1].is_active
    /\ ~subscriptions[1].canceled_at

----------------------------------------------------------------------------
\* C24: after a checkout.session.completed event with a client_reference_id
\* has been processed, the handler has answered success, an active
\* subscription is recorded for that user key and the is_premium flag of the
\* user is True (so that the next quota check of the user is unlimited).
C24_CheckoutActivatesSubscription ==
    [][(IsCall("checkout.session.completed") /\ svc'.key # NoneVal) =>
           /\ svc'.status = 200
           /\ svc'.ok
           /\ Subscribed(subscriptions', svc'.key)
           /\ users'[svc'.key].exists
           /\ users'[svc'.key].is_premium
      ]_vars

----------------------------------------------------------------------------
\* the rows of the user that are active
ActiveRows(subscriptions_, key) ==
    {k \in 1..Len(subscriptions_) :
        /\ subscriptions_[k].user_key = key
        /\ subscriptions_[k].is_active}

\* C25: the cancellation endpoint leaves the database as it is and answers
\* success = False when the Stripe cancel call fails (the subscription stays
\* active, the user stays premium) and when the user has no active
\* subscription; only when Stripe succeeds or the subscription has no Stripe
\* id it answers success = True, and then an active subscription of the
\* user has been set inactive with canceled_at set, the other rows are as
\* before and the is_premium flag of the user is False.
C25_CancelOnlyAfterStripe ==
    [][IsCall("cancel") =>
           LET key == svc'.key
               before == ActiveRows(subscriptions, key)
               after == ActiveRows(subscriptions', key)
           IN  /\ svc'.arg = "StripeError" =>
                      /\ ~svc'.ok
                      /\ before # {}
                      /\ \E k \in before :
                             subscriptions[k].stripe_subscription_id
                                 # NoneVal
               /\ before = {} => ~svc'.ok
               /\ ~svc'.ok =>
                      /\ subscriptions' = subscriptions
                      /\ users' = users
               /\ svc'.ok =>
                      /\ svc'.arg # "StripeError"
                      /\ Len(subscriptions') = Len(subscriptions)
                      /\ \E k \in before :
                             /\ after = before \ {k}
                             /\ subscriptions'[k].canceled_at
                             /\ \A j \in 1..Len(subscriptions) :
                                    j # k =>
                                        subscriptions'[j] = subscriptions[j]
                      /\ users'[key].exists => ~users'[key].is_premium
      ]_vars

\* Stripe has refused the cancellation: the subscription is active and the
\* user is premium
C25_Witness ==
    /\ svc.op = "cancel"
    /\ svc.arg = "StripeError"
    /\ ~svc.ok
    /\ ActiveRows(subscriptions, svc.key) # {}
    /\ users[svc.key].is_premium

\* the cancellation has gone through
C25_WitnessCancelled ==
    /\ svc.op = "cancel"
    /\ svc.ok
    /\ ActiveRows(subscriptions, svc.key) = {}
    /\ Len(subscriptions) = 1
    /\ subscriptions[1].canceled_at
    /\ ~users[svc.key].is_premium

----------------------------------------------------------------------------
\* C26: a customer.subscription.deleted event is answered with success; for
\* a known subscription id that subscription then has is_active = False and
\* canceled_at set, the is_premium flag of its user is False and the other
\* rows are as before; for an unknown id nothing changes.  A user without
\* active subscription is subject to the daily limit in the next
\* check_and_update_usage.
C26_DeletedEventEndsSubscription ==
    [][/\ IsCall("customer.subscription.deleted") =>
              LET known == {k \in 1..Len(subscriptions) :
                               subscriptions[k].stripe_subscription_id
                                   = svc'.sid}
              IN  /\ svc'.status = 200
                  /\ svc'.ok
                  /\ Len(subscriptions') = Len(subscriptions)
                  /\ known = {} =>
                         /\ subscriptions' = subscriptions
                         /\ users' = users
                  /\ known # {} =>
                         \E k \in known :
                             /\ ~subscriptions'[k].is_active
                             /\ subscriptions'[k].canceled_at
                             /\ users'[subscriptions[k].user_key].exists =>
                                    ~users'[subscriptions[k].user_key]
                                          .is_premium
                             /\ \A j \in 1..Len(subscriptions) :
                                    j # k =>
                                        subscriptions'[j] = subscriptions[j]
       /\ (pc = "usage_read" /\ pc' # "usage_read"
               /\ ~Subscribed(subscriptions, user_key)) =>
              /\ pc' = "usage_write"
              /\ ~users'[user_key].is_premium
       /\ IsUsageWriteStep =>
              /\ ~usage_info'.premium
              /\ usage_info'.limit = USAGE_LIMIT
              /\ usage_info'.can_use =>
                     users'[user_key].daily_usage_count
                         = session_user.daily_usage_count + 1
      ]_vars

\* after the event for the subscription of the user, the next request of
\* the user has been counted against the daily limit
C26_Witness ==
    /\ svc.op = "customer.subscription.deleted"
    /\ Len(subscriptions) = 1
    /\ subscriptions[1].stripe_subscription_id = svc.sid
    /\ ~subscriptions[1].is_active
    /\ subscriptions[1].canceled_at
    /\ pc = "validate"
    /\ user_key = subscriptions[1].user_key
    /\ ~usage_info.premium
    /\ usage_info.limit = USAGE_LIMIT
    /\ usage_info.used = 1

----------------------------------------------------------------------------
\* C27: for every valid request, result_text has the length of the request
\* text and line feeds at the same positions; result_text[p] differs from
\* text[p] exactly at the positions p of the Changes, where text[p] is the
\* original and result_text[p] the converted glyph of the Change; every
\* character that is no recognized sign is unchanged.
C27_ConversionPreservesPositions ==
    Answered =>
        LET text == req.text
            result == response.result_text
            changed == {response.changes[j].position :
                            j \in 1..Len(response.changes)}
        IN  /\ Len(result) = Len(text)
            /\ \A k \in 1..Len(text) : (text[k] = LF) = (result[k] = LF)
            /\ \A p \in 0..(Len(text) - 1) :
                   /\ (At(result, p) # At(text, p)) = (p \in changed)
                   /\ At(text, p) \notin DOMAIN SIGN_MAP =>
                          At(result, p) = At(text, p)
            /\ \A j \in 1..Len(response.changes) :
                   /\ response.changes[j].position \in 0..(Len(text) - 1)
                   /\ At(text, response.changes[j].position)
                          = response.changes[j].original
                   /\ At(result, response.changes[j].position)
                          = response.changes[j].converted

\* a text with a half-width ideographic comma, a sign and a line feed has
\* been converted
C27_Witness ==
    /\ Answered
    /\ req.text = <<"UFF64", LF, ",">>
    /\ req.mode = "convert"
    /\ req.style = "jp"
    /\ response.result_text = <<"UFF64", LF, "U3001">>
    /\ Len(response.changes) = 1
    /\ response.changes[1].position = 2

----------------------------------------------------------------------------
\* C28: after a convert with active style S in {jp, en}, detect_style of the
\* result_text is S or "none", never "mixed" and never the other family; for
\* jp with width "half" it is always "none", since the emitted glyphs UFF64
\* and UFF61 are no keys of SIGN_MAP: the result sent back is answered with
\* zero Issues and no Change, and no convert with any style and width
\* rewrites any of its characters.
C28_ResultInSingleStyle ==
    (/\ Answered
     /\ req.mode = "convert"
     /\ active_style \in {"jp", "en"}) =>
        LET result == response.result_text
        IN  /\ detect_style(result) \in {active_style, "none"}
            /\ (active_style = "jp" /\ req.width = "half") =>
                   /\ detect_style(result) = "none"
                   /\ \A k \in 1..Len(result) :
                          /\ result[k] \notin DOMAIN SIGN_MAP
                          /\ \A S \in {"jp", "en"} :
                                 \A W \in {"auto", "full", "half"} :
                                     new_ch(result[k], "convert", S, W)
                                         = result[k]
                   /\ round > 1 => /\ response.issues = <<>>
                                   /\ response.changes = <<>>
                                   /\ response.result_text = req.text

\* the mixed text "a" U3001 "b" "." "c" was converted to jp/half, and the
\* result sent back has been answered without any Issue
C28_Witness ==
    /\ Answered
    /\ round = 2
    /\ req.mode = "convert"
    /\ req.style = "jp"
    /\ req.width = "half"
    /\ active_style = "jp"
    /\ sent = << <<"a", "U3001", "b", ".", "c">> >>
    /\ req.text = <<"a", "UFF64", "b", "UFF61", "c">>
    /\ detect_style(response.result_text) = "none"
    /\ response.issues = <<>>

\* a text with signs of both families has been converted to en, and the
\* result is detected as en
C28_WitnessEn ==
    /\ Answered
    /\ req.mode = "convert"
    /\ req.style = "en"
    /\ detect_style(req.text) = "mixed"
    /\ detect_style(response.result_text) = "en"

----------------------------------------------------------------------------
\* the step is the validation block of check_punctuation
IsValidateStep == pc = "validate" /\ pc' # "validate"

\* C29: in check_punctuation the check and the consumption of the quota come
\* before the validation: the validation block is entered only from
\* check_usage_limit, called exactly once and allowing the request; the
\* allowing step has raised daily_usage_count of a user without subscription
\* by exactly 1, and a rejection by the validation (400) leaves that count
\* as raised; a request refused for the quota (429) leaves the count and is
\* never validated.
C29_QuotaConsumedBeforeValidation ==
    [][/\ (pc' = "validate" /\ pc # "validate") =>
              /\ pc \in {"usage_read", "usage_write"}
              /\ calls'.check_usage_limit = 1
              /\ usage_info'.can_use
       /\ (IsUsageWriteStep /\ pc' = "validate") =>
              /\ ~has_active_subscription(subscriptions, user_key)
              /\ users'[user_key].daily_usage_count
                     = users[user_key].daily_usage_count + 1
              /\ usage_info'.used = users'[user_key].daily_usage_count
       /\ IsValidateStep =>
              /\ users' = users
              /\ calls' = calls
              /\ usage_info' = usage_info
              /\ ~usage_info.premium =>
                     /\ users[user_key].daily_usage_count = usage_info.used
                     /\ usage_info.used >= 1
              /\ (pc' = "done") = Rejected(req)
              /\ pc' = "done" => response'.status = 400
       /\ (IsUsageWriteStep /\ pc' # "validate") =>
              /\ pc' = "done"
              /\ response'.status = 429
              /\ users' = users
       /\ (pc = "done" /\ response.status = 429) =>
              pc' \in {"done", "idle", "usage_read"}
      ]_vars

\* the first request of the day, with a mode outside the enumeration, has
\* been answered with 400 and counts as one use
C29_Witness ==
    /\ pc = "done"
    /\ response.status = 400
    /\ req.mode = Invalid
    /\ usage_info.used = 1
    /\ users["u1"].daily_usage_count = 1
    /\ granted["u1"][today] = 1

\* a request with a mode outside the enumeration has been refused for the
\* quota
C29_WitnessRefused ==
    /\ pc = "done"
    /\ response.status = 429
    /\ req.mode = Invalid
    /\ users["u1"].daily_usage_count = USAGE_LIMIT

----------------------------------------------------------------------------
\* C30: after any sequence of create_subscription, cancel_subscription and
\* Stripe webhook events, no user key has two subscriptions with is_active
\* True, and so the user has no active subscription after a
\* cancel_subscription that returned True.
C30_AtMostOneActiveSubscription ==
    /\ \A key \in UserKeys :
           Cardinality(ActiveRows(subscriptions, key)) <= 1
    /\ (svc.op = "cancel" /\ svc.ok) =>
           ~has_active_subscription(subscriptions, svc.key)

====
